---- MODULE Spec2Model ----
(***************************************************************************)
(* A model of scripts/generate_daily.py: the daily worksheet publisher.    *)
(*                                                                         *)
(* Python values are modelled as follows.                                  *)
(*  - A str is a sequence of chunks.  A chunk is a piece of text that the  *)
(*    code never looks inside: one structural character of JSON, one       *)
(*    blank, one quotation mark, one escape sequence, or a run of other    *)
(*    characters (a word, a sentence).  Non-ASCII characters are written   *)
(*    by name: "<ldquo>" is U+201C, "<U+D800>" is a lone surrogate.         *)
(*  - A value produced by json.loads is a record [t, v]: t is the Python   *)
(*    type ("dict", "list", "str", "int", "bool", "none") and v the        *)
(*    content.  A dict is the sequence of its items [k, val] in insertion  *)
(*    order, as Python keeps them.                                         *)
(***************************************************************************)
EXTENDS Integers, Sequences, FiniteSets, TLC

(***************************************************************************)
(* Python values                                                           *)
(***************************************************************************)
NoneVal == [t |-> "none", v |-> 0]
StrVal(s) == [t |-> "str", v |-> s]
IntVal(n) == [t |-> "int", v |-> n]
BoolVal(b) == [t |-> "bool", v |-> b]
ListVal(xs) == [t |-> "list", v |-> xs]
DictVal(items) == [t |-> "dict", v |-> items]
EmptyDict == DictVal(<<>>)

\* isinstance(x, T)
IsStr(x) == x.t = "str"
IsList(x) == x.t = "list"
IsDict(x) == x.t = "dict"
IsBool(x) == x.t = "bool"

\* d.get(k): the value of key k in dict d, None when d has no such key
DictGet(d, k) ==
    IF \E i \in 1..Len(d.v) : d.v[i].k = k
    THEN d.v[CHOOSE i \in 1..Len(d.v) : d.v[i].k = k].val
    ELSE NoneVal

\* d.get(k, dflt)
DictGetOr(d, k, dflt) ==
    IF \E i \in 1..Len(d.v) : d.v[i].k = k
    THEN d.v[CHOOSE i \in 1..Len(d.v) : d.v[i].k = k].val
    ELSE dflt

\* d[k] = val: a key already present keeps its place, a new key goes last
DictSet(d, k, val) ==
    IF \E i \in 1..Len(d.v) : d.v[i].k = k
    THEN DictVal([i \in 1..Len(d.v) |->
                 IF d.v[i].k = k THEN [k |-> k, val |-> val] ELSE d.v[i]])
    ELSE DictVal(Append(d.v, [k |-> k, val |-> val]))

(***************************************************************************)
(* str methods                                                             *)
(***************************************************************************)
IsSpace(c) == c \in {" ", "\n"}

RECURSIVE LStrip(_)
LStrip(s) ==
    IF s # <<>> /\ IsSpace(Head(s)) THEN LStrip(Tail(s)) ELSE s

RECURSIVE RStrip(_)
RStrip(s) ==
    IF s # <<>> /\ IsSpace(s[Len(s)]) THEN RStrip(SubSeq(s, 1, Len(s) - 1)) ELSE s

\* s.strip()
Strip(s) == RStrip(LStrip(s))

\* one chunk in upper case; the chunks this is applied to are single
\* characters, and a character with no upper-case form is unchanged
UpperChunk(c) ==
    CASE c = "a" -> "A"
      [] c = "b" -> "B"
      [] c = "c" -> "C"
      [] c = "d" -> "D"
      [] OTHER -> c

\* s.upper()
Upper(s) == [i \in 1..Len(s) |-> UpperChunk(s[i])]

\* sep.join(parts)
RECURSIVE Join(_, _)
Join(sep, parts) ==
    IF parts = <<>> THEN <<>>
    ELSE IF Len(parts) = 1 THEN parts[1]
    ELSE parts[1] \o sep \o Join(sep, Tail(parts))

\* repr(x) as far as str() of a container needs it
RECURSIVE Repr(_)
Repr(x) ==
    CASE x.t = "str" -> <<"'">> \o x.v \o <<"'">>
      [] x.t = "int" -> <<ToString(x.v)>>
      [] x.t = "bool" -> IF x.v THEN <<"True">> ELSE <<"False">>
      [] x.t = "none" -> <<"None">>
      [] x.t = "list" ->
           <<"[">> \o Join(<<",", " ">>, [i \in 1..Len(x.v) |-> Repr(x.v[i])]) \o <<"]">>
      [] x.t = "dict" ->
           <<"{">> \o Join(<<",", " ">>,
                           [i \in 1..Len(x.v) |->
                              Repr(StrVal(x.v[i].k)) \o <<":", " ">> \o Repr(x.v[i].val)])
                   \o <<"}">>

\* str(x)
PyStr(x) == IF x.t = "str" THEN x.v ELSE Repr(x)

(***************************************************************************)
(* json.loads on a text of chunks.  The result of a parse step is          *)
(* [ok, val, pos]: whether it succeeded, the value, and the index of the   *)
(* first chunk after it.  json.loads raises exactly when ok is FALSE.      *)
(***************************************************************************)
Digits == {"0", "1", "2", "3", "4", "5", "6", "7", "8", "9"}
DigitValue(c) == CHOOSE n \in 0..9 : ToString(n) = c

\* the escape sequences of a JSON string and the character each stands for;
\* \ud800 is accepted by json.loads and yields a lone surrogate
Escapes == {"\\ud800", "\\\"", "\\n"}
Unescape(c) ==
    CASE c = "\\ud800" -> "<U+D800>"
      [] c = "\\\"" -> "\""
      [] c = "\\n" -> "\n"

ParseFail == [ok |-> FALSE, val |-> NoneVal, pos |-> 0]
ParseOk(val, pos) == [ok |-> TRUE, val |-> val, pos |-> pos]

\* the index of the first chunk at or after i that is not JSON whitespace
RECURSIVE SkipWs(_, _)
SkipWs(s, i) ==
    IF i <= Len(s) /\ IsSpace(s[i]) THEN SkipWs(s, i + 1) ELSE i

\* the rest of a string after its opening quote at i - 1
RECURSIVE ScanString(_, _, _)
ScanString(s, i, acc) ==
    IF i > Len(s) THEN ParseFail
    ELSE IF s[i] = "\"" THEN ParseOk(StrVal(acc), i + 1)
    ELSE IF s[i] \in Escapes THEN ScanString(s, i + 1, Append(acc, Unescape(s[i])))
    ELSE IF s[i] = "\\" \/ s[i] = "\n" THEN ParseFail
    ELSE ScanString(s, i + 1, Append(acc, s[i]))

\* a run of digits starting at i (a number with a leading 0 ends after the 0)
RECURSIVE ScanNumber(_, _, _)
ScanNumber(s, i, acc) ==
    IF i <= Len(s) /\ s[i] \in Digits
    THEN ScanNumber(s, i + 1, 10 * acc + DigitValue(s[i]))
    ELSE ParseOk(IntVal(acc), i)

RECURSIVE ParseValue(_, _)
RECURSIVE ParseMembers(_, _, _)
RECURSIVE ParseElements(_, _, _)

\* the members of an object from the key expected at i; d holds those read
ParseMembers(s, i, d) ==
    IF i > Len(s) \/ s[i] # "\"" THEN ParseFail
    ELSE LET key == ScanString(s, i + 1, <<>>)
         IN IF ~key.ok THEN ParseFail
            ELSE LET c == SkipWs(s, key.pos)
                 IN IF c > Len(s) \/ s[c] # ":" THEN ParseFail
                    ELSE LET val == ParseValue(s, SkipWs(s, c + 1))
                         IN IF ~val.ok THEN ParseFail
                            ELSE LET d2 == DictSet(d, key.val.v, val.val)
                                     e == SkipWs(s, val.pos)
                                 IN IF e > Len(s) THEN ParseFail
                                    ELSE IF s[e] = "}" THEN ParseOk(d2, e + 1)
                                    ELSE IF s[e] = ","
                                         THEN ParseMembers(s, SkipWs(s, e + 1), d2)
                                    ELSE ParseFail

\* the elements of an array from the value expected at i; xs holds those read
ParseElements(s, i, xs) ==
    LET val == ParseValue(s, i)
    IN IF ~val.ok THEN ParseFail
       ELSE LET xs2 == Append(xs, val.val)
                e == SkipWs(s, val.pos)
            IN IF e > Len(s) THEN ParseFail
               ELSE IF s[e] = "]" THEN ParseOk(ListVal(xs2), e + 1)
               ELSE IF s[e] = "," THEN ParseElements(s, SkipWs(s, e + 1), xs2)
               ELSE ParseFail

\* the JSON value that starts at i
ParseValue(s, i) ==
    IF i > Len(s) THEN ParseFail
    ELSE CASE s[i] = "{" ->
                LET m == SkipWs(s, i + 1)
                IN IF m <= Len(s) /\ s[m] = "}" THEN ParseOk(EmptyDict, m + 1)
                   ELSE ParseMembers(s, m, EmptyDict)
           [] s[i] = "[" ->
                LET m == SkipWs(s, i + 1)
                IN IF m <= Len(s) /\ s[m] = "]" THEN ParseOk(ListVal(<<>>), m + 1)
                   ELSE ParseElements(s, m, <<>>)
           [] s[i] = "\"" -> ScanString(s, i + 1, <<>>)
           [] s[i] = "0" -> ParseOk(IntVal(0), i + 1)
           [] s[i] \in Digits -> ScanNumber(s, i, 0)
           [] s[i] = "true" -> ParseOk(BoolVal(TRUE), i + 1)
           [] s[i] = "false" -> ParseOk(BoolVal(FALSE), i + 1)
           [] s[i] = "null" -> ParseOk(NoneVal, i + 1)
           [] OTHER -> ParseFail

\* json.loads(text): one value, blanks around it, and nothing else
JsonLoads(text) ==
    LET val == ParseValue(text, SkipWs(text, 1))
    IN IF val.ok /\ SkipWs(text, val.pos) > Len(text) THEN val ELSE ParseFail

(***************************************************************************)
(* Gemini robust JSON                                                      *)
(***************************************************************************)
\* re.search(r"\{.*\}", text, flags=re.S): from the first "{" to the last "}"
extract_json_block(text) ==
    LET opens == {i \in 1..Len(text) : text[i] = "{"}
        first == CHOOSE i \in opens : \A k \in opens : i <= k
        closes == {i \in 1..Len(text) : text[i] = "}" /\ i > first}
        last == CHOOSE i \in closes : \A k \in closes : k <= i
    IN IF opens = {} THEN <<>>
       ELSE IF closes = {} THEN <<>>
       ELSE SubSeq(text, first, last)

\* the four str.replace calls: curly quotation marks to straight ones
StraightQuote(c) ==
    CASE c = "<ldquo>" -> "\""
      [] c = "<rdquo>" -> "\""
      [] c = "<rsquo>" -> "'"
      [] c = "<lsquo>" -> "'"
      [] OTHER -> c

\* re.sub(r",\s*([}\]])", r"\1", s): a comma and the blanks after it are
\* dropped when a closing brace or bracket follows them
RECURSIVE StripTrailingCommas(_, _)
StripTrailingCommas(s, i) ==
    IF i > Len(s) THEN <<>>
    ELSE IF s[i] = ","
         THEN LET e == SkipWs(s, i + 1)
              IN IF e <= Len(s) /\ s[e] \in {"}", "]"}
                 THEN <<s[e]>> \o StripTrailingCommas(s, e + 1)
                 ELSE <<s[i]>> \o StripTrailingCommas(s, i + 1)
         ELSE <<s[i]>> \o StripTrailingCommas(s, i + 1)

repair_json(s) ==
    IF s = <<>> THEN s
    ELSE StripTrailingCommas([i \in 1..Len(s) |-> StraightQuote(s[i])], 1)

\* the value safe_json_loads returns
safe_json_loads(text) ==
    LET first == JsonLoads(text)
        block == extract_json_block(text)
        second == JsonLoads(block)
        block2 == repair_json(block)
        third == JsonLoads(block2)
    IN IF first.ok THEN first.val
       ELSE IF block = <<>> THEN EmptyDict
       ELSE IF second.ok THEN second.val
       ELSE IF third.ok THEN third.val
       ELSE EmptyDict

(***************************************************************************)
(* default_payload and normalize_payload.  The payload is a record with    *)
(* the keys of the Python dict; "_debug" is written debug.  Text that is   *)
(* not ASCII in the source is written in ASCII here: the curly apostrophe  *)
(* as ', Korean in romanised form, an emoji by its name.                   *)
(***************************************************************************)
StoryLimit == 4
WordLimit == 5

default_story ==
    << <<"Hello!", " ", "Let's read a story about nature.">>,
       <<"This story is easy and fun.">>,
       <<"We will learn five new words today.">>,
       <<"Let's read together!">> >>

default_words ==
    << [word |-> <<"animal">>, ko |-> <<"dongmul">>, en |-> <<"a living creature">>],
       [word |-> <<"forest">>, ko |-> <<"sup">>, en |-> <<"a place with many trees">>],
       [word |-> <<"river">>, ko |-> <<"gang">>, en |-> <<"moving water">>],
       [word |-> <<"grow">>, ko |-> <<"jarada">>, en |-> <<"get bigger">>],
       [word |-> <<"safe">>, ko |-> <<"anjeonhan">>, en |-> <<"not in danger">>] >>

default_read_aloud ==
    <<"Hello!", " / ", "Let's read a story about nature.", " / ",
      "This story is easy and fun.", " / ",
      "We will learn five new words today.", " / ",
      "Let's read together!">>

default_quiz ==
    [tf |-> [q |-> <<"True or False: Nature is all around us.">>, answer |-> TRUE],
     mcq |-> [q |-> <<"Choose one: Where do trees grow?">>,
              choices |-> [A |-> <<"Forest">>, B |-> <<"Phone">>, C |-> <<"Shoe">>],
              answer |-> <<"A">>],
     pic |-> [q |-> <<"Pick the nature emoji!">>,
              choices |-> [A |-> <<"<tree>">>, B |-> <<"<car>">>, C |-> <<"<phone>">>],
              answer |-> <<"A">>]]

default_payload(headline) ==
    [title |-> <<"Nature Story Time!">>,
     topic |-> <<"nature">>,
     story |-> default_story,
     words |-> default_words,
     read_aloud |-> default_read_aloud,
     quiz |-> default_quiz,
     parent_note_ko |-> <<"Read the STORY twice and learn the 5 WORDS.">>,
     debug |-> [headline |-> headline]]

\* one chunk in lower case (the topic names are single chunks)
LowerChunk(c) ==
    CASE c = "Animals" -> "animals"
      [] c = "NATURE" -> "nature"
      [] OTHER -> c

\* s.lower()
Lower(s) == [i \in 1..Len(s) |-> LowerChunk(s[i])]

allowed ==
    { <<"space">>, <<"animals">>, <<"nature">>, <<"sports">>, <<"vehicles">>,
      <<"food">>, <<"people">>, <<"science">>, <<"weather">>, <<"general">> }

\* xs[:n]
Take(xs, n) == SubSeq(xs, 1, IF Len(xs) < n THEN Len(xs) ELSE n)

\* CleanStory without the test that drops blank items
CleanStoryKeepsBlank(story) ==
    [i \in 1..Len(story) |-> Strip(PyStr(story[i]))]

\* CleanWords looking only at the first WordLimit items of the list
CleanWordsOfFirstFive(words) ==
    LET first == SubSeq(words, 1, IF Len(words) < WordLimit THEN Len(words) ELSE WordLimit)
        kept == SelectSeq(first, LAMBDA w :
                    IsDict(w) /\ Strip(PyStr(DictGetOr(w, <<"word">>, StrVal(<<>>)))) # <<>>)
    IN [i \in 1..Len(kept) |->
           [word |-> Strip(PyStr(DictGetOr(kept[i], <<"word">>, StrVal(<<>>)))),
            ko |-> Strip(PyStr(DictGetOr(kept[i], <<"ko">>, StrVal(<<>>)))),
            en |-> Strip(PyStr(DictGetOr(kept[i], <<"en">>, StrVal(<<>>))))]]

\* [str(x).strip() for x in story if str(x).strip()]
CleanStory(story) ==
    LET stripped == [i \in 1..Len(story) |-> Strip(PyStr(story[i]))]
    IN SelectSeq(stripped, LAMBDA x : x # <<>>)

\* the loop over words: the dicts with a non-empty word, as records
RECURSIVE CleanWords(_)
CleanWords(words) ==
    IF words = <<>> THEN <<>>
    ELSE LET w == Head(words)
             ww == Strip(PyStr(DictGetOr(w, <<"word">>, StrVal(<<>>))))
         IN IF IsDict(w) /\ ww # <<>>
            THEN << [word |-> ww,
                     ko |-> Strip(PyStr(DictGetOr(w, <<"ko">>, StrVal(<<>>)))),
                     en |-> Strip(PyStr(DictGetOr(w, <<"en">>, StrVal(<<>>))))] >>
                 \o CleanWords(Tail(words))
            ELSE CleanWords(Tail(words))

\* x.strip() or dflt
StripOr(x, dflt) == IF Strip(x) # <<>> THEN Strip(x) ELSE dflt

\* AnswerKey without the test that the answer is one of A, B, C
AnswerKeyUnchecked(sub, dflt) ==
    IF IsDict(sub) /\ IsStr(DictGet(sub, <<"answer">>))
    THEN Upper(Strip(DictGet(sub, <<"answer">>).v))
    ELSE dflt

\* the key an answer gives: the answer when it is a str that strips and
\* upper-cases to A, B or C, and the key already in place otherwise
AnswerKey(sub, dflt) ==
    IF IsDict(sub) /\ IsStr(DictGet(sub, <<"answer">>))
       /\ Upper(Strip(DictGet(sub, <<"answer">>).v)) \in { <<"A">>, <<"B">>, <<"C">> }
    THEN Upper(Strip(DictGet(sub, <<"answer">>).v))
    ELSE dflt

\* the question of a quiz part
QuizQuestion(sub, dflt) ==
    IF IsDict(sub) /\ IsStr(DictGet(sub, <<"q">>))
    THEN StripOr(DictGet(sub, <<"q">>).v, dflt)
    ELSE dflt

\* the choices of a quiz part
QuizChoices(sub, dflt) ==
    IF IsDict(sub) /\ IsDict(DictGet(sub, <<"choices">>))
    THEN LET ch == DictGet(sub, <<"choices">>)
         IN [A |-> Strip(PyStr(DictGetOr(ch, <<"A">>, StrVal(dflt.A)))),
             B |-> Strip(PyStr(DictGetOr(ch, <<"B">>, StrVal(dflt.B)))),
             C |-> Strip(PyStr(DictGetOr(ch, <<"C">>, StrVal(dflt.C))))]
    ELSE dflt

\* the quiz of the payload
NormalizeQuiz(quiz, dflt) ==
    IF ~IsDict(quiz) THEN dflt
    ELSE LET tf == DictGet(quiz, <<"tf">>)
             mcq == DictGet(quiz, <<"mcq">>)
             pic == DictGet(quiz, <<"pic">>)
         IN [tf |-> [q |-> QuizQuestion(tf, dflt.tf.q),
                     answer |-> IF IsDict(tf) /\ IsBool(DictGet(tf, <<"answer">>))
                                THEN DictGet(tf, <<"answer">>).v
                                ELSE dflt.tf.answer],
             mcq |-> [q |-> QuizQuestion(mcq, dflt.mcq.q),
                      choices |-> QuizChoices(mcq, dflt.mcq.choices),
                      answer |-> AnswerKey(mcq, dflt.mcq.answer)],
             pic |-> [q |-> QuizQuestion(pic, dflt.pic.q),
                      choices |-> QuizChoices(pic, dflt.pic.choices),
                      answer |-> AnswerKey(pic, dflt.pic.answer)]]

\* ReadAloud leaving the read_aloud of the default document in place
ReadAloudKeepsDefault(ra, story) ==
    IF IsStr(ra) /\ Strip(ra.v) # <<>> THEN Strip(ra.v) ELSE default_read_aloud

\* the value of out["read_aloud"], given the story already in out
ReadAloud(ra, story) ==
    IF IsStr(ra) /\ Strip(ra.v) # <<>> THEN Strip(ra.v) ELSE Join(<<" / ">>, story)

\* lines 167-241: the fields of the payload, from the parsed dict j and the
\* default document out
fill_fields(j, out) ==
    LET title == DictGet(j, <<"title">>)
        topic == DictGet(j, <<"topic">>)
        story == DictGet(j, <<"story">>)
        words == DictGet(j, <<"words">>)
        note == DictGet(j, <<"parent_note_ko">>)
        out_story == IF IsList(story) /\ CleanStory(story.v) # <<>>
                     THEN Take(CleanStory(story.v), StoryLimit)
                     ELSE out.story
    IN [title |-> IF IsStr(title) /\ Strip(title.v) # <<>> THEN Strip(title.v) ELSE out.title,
        topic |-> IF IsStr(topic) /\ Lower(Strip(topic.v)) \in allowed
                  THEN Lower(Strip(topic.v)) ELSE out.topic,
        story |-> out_story,
        words |-> IF IsList(words) /\ CleanWords(words.v) # <<>>
                  THEN Take(CleanWords(words.v), WordLimit)
                  ELSE out.words,
        read_aloud |-> ReadAloud(DictGet(j, <<"read_aloud">>), out_story),
        quiz |-> NormalizeQuiz(DictGet(j, <<"quiz">>), out.quiz),
        parent_note_ko |-> IF IsStr(note) /\ Strip(note.v) # <<>>
                           THEN Strip(note.v) ELSE out.parent_note_ko,
        debug |-> out.debug]

\* normalize_payload falling back to the whole default document as soon as
\* the story is unusable
normalize_payload_whole_default(j0, headline) ==
    LET j == IF ~IsDict(j0) THEN EmptyDict ELSE j0
        story == DictGet(j, <<"story">>)
    IN IF IsList(story) /\ CleanStory(story.v) # <<>>
       THEN fill_fields(j, default_payload(headline))
       ELSE fill_fields(EmptyDict, default_payload(headline))

normalize_payload(j0, headline) ==
    fill_fields(IF ~IsDict(j0) THEN EmptyDict ELSE j0, default_payload(headline))

(***************************************************************************)
(* json.dump(data, f, ensure_ascii=False, indent=2): the text written      *)
(***************************************************************************)
\* a str between quotes, with the characters JSON requires escaped
EscapeChunk(c) ==
    CASE c = "\"" -> "\\\""
      [] c = "\n" -> "\\n"
      [] OTHER -> c

DumpStr(s) == <<"\"">> \o [i \in 1..Len(s) |-> EscapeChunk(s[i])] \o <<"\"">>

\* a line break followed by the indentation of the given depth
Indent(depth) == <<"\n">> \o [i \in 1..(2 * depth) |-> " "]

RECURSIVE JsonDumps(_, _)
JsonDumps(x, depth) ==
    CASE x.t = "str" -> DumpStr(x.v)
      [] x.t = "int" -> <<ToString(x.v)>>
      [] x.t = "bool" -> IF x.v THEN <<"true">> ELSE <<"false">>
      [] x.t = "none" -> <<"null">>
      [] x.t = "list" ->
           IF x.v = <<>> THEN <<"[", "]">>
           ELSE <<"[">> \o Indent(depth + 1)
                \o Join(<<",">> \o Indent(depth + 1),
                        [i \in 1..Len(x.v) |-> JsonDumps(x.v[i], depth + 1)])
                \o Indent(depth) \o <<"]">>
      [] x.t = "dict" ->
           IF x.v = <<>> THEN <<"{", "}">>
           ELSE <<"{">> \o Indent(depth + 1)
                \o Join(<<",">> \o Indent(depth + 1),
                        [i \in 1..Len(x.v) |->
                           DumpStr(x.v[i].k) \o <<":", " ">>
                           \o JsonDumps(x.v[i].val, depth + 1)])
                \o Indent(depth) \o <<"}">>

(***************************************************************************)
(* The collaborators of a run                                              *)
(***************************************************************************)
\* datetime.now(KST).strftime("%Y-%m-%d") on day d of the clock
DateStr(d) ==
    CASE d = 1 -> <<"2026-11-01">>
      [] d = 2 -> <<"2026-11-02">>
      [] d = 3 -> <<"2026-11-03">>
      [] d = 4 -> <<"2026-11-04">>
      [] d = 5 -> <<"2026-11-05">>
      [] d = 6 -> <<"2026-11-06">>

\* fetch_headline on a parsed feed, a sequence of entries [title, link]:
\* [ok, title, link], where ok is FALSE when it raises RuntimeError
fetch_headline(feed) ==
    IF feed = <<>> THEN [ok |-> FALSE, title |-> <<>>, link |-> <<>>]
    ELSE LET title == Strip(feed[1].title)
             link == Strip(feed[1].link)
         IN IF title = <<>> \/ link = <<>>
            THEN [ok |-> FALSE, title |-> <<>>, link |-> <<>>]
            ELSE [ok |-> TRUE, title |-> title, link |-> link]

\* call_gemini_text without the check of the credential
call_gemini_text_unchecked(key, reply) ==
    IF reply.k = "text" THEN [ok |-> TRUE, text |-> Strip(reply.text)]
    ELSE [ok |-> TRUE, text |-> <<>>]

\* call_gemini_text with credential key, when the service answers reply:
\* [k |-> "error"] (the request fails or has an error status),
\* [k |-> "blocked"] (no candidates) or [k |-> "text", text |-> ...];
\* [ok, text], where ok is FALSE when it raises
call_gemini_text(key, reply) ==
    IF key = <<>> THEN [ok |-> FALSE, text |-> <<>>]
    ELSE IF reply.k = "error" THEN [ok |-> FALSE, text |-> <<>>]
    ELSE IF reply.k = "blocked" THEN [ok |-> TRUE, text |-> <<>>]
    ELSE [ok |-> TRUE, text |-> Strip(reply.text)]

\* whether a str can be written to a file opened with encoding="utf-8"
Encodable(s) == \A i \in 1..Len(s) : s[i] # "<U+D800>"

\* the strings of the payload that build_day_html puts on the page
PageStrings(j) ==
    {j.title, j.topic, j.read_aloud, j.parent_note_ko,
     j.quiz.tf.q, j.quiz.mcq.q, j.quiz.pic.q,
     j.quiz.mcq.answer, j.quiz.pic.answer}
    \cup {j.story[i] : i \in 1..Len(Take(j.story, StoryLimit))}
    \cup UNION {{j.words[i].word, j.words[i].ko, j.words[i].en} :
                  i \in 1..Len(Take(j.words, WordLimit))}
    \cup UNION {{q.choices.A, q.choices.B, q.choices.C} : q \in {j.quiz.mcq, j.quiz.pic}}

\* build_day_html: the page is represented by the date and the title it
\* shows and by whether its text can be encoded
build_day_html(date_str, headline, link, j) ==
    [date |-> date_str, title |-> j.title,
     encodable |-> \A x \in PageStrings(j) \cup {headline, link} : Encodable(x)]

\* load_archive on the archive file: [ok, val]; ok is FALSE when json.load raises
load_archive(file) ==
    IF file.k = "absent" THEN [ok |-> TRUE, val |-> ListVal(<<>>)]
    ELSE LET r == JsonLoads(file.text) IN [ok |-> r.ok, val |-> r.val]

\* what a for loop over x yields; iterating anything else raises TypeError
Iterable(x) == x.t \in {"list", "dict", "str"}
Iterate(x) ==
    CASE x.t = "list" -> x.v
      [] x.t = "dict" -> [i \in 1..Len(x.v) |-> StrVal(x.v[i].k)]
      [] x.t = "str" -> [i \in 1..Len(x.v) |-> StrVal(<<x.v[i]>>)]

\* a == b for a str b
EqStr(a, b) == a.t = "str" /\ a.v = b

\* the archive entry of a day
ArchiveEntry(date, file, title) ==
    DictVal(<< [k |-> <<"date">>, val |-> StrVal(date)],
               [k |-> <<"file">>, val |-> StrVal(file)],
               [k |-> <<"title">>, val |-> StrVal(title)] >>)

\* upsert without the removal of the entry of the same date
upsert_keeps_old(items, today, entry) == <<entry>> \o items

\* upsert with the new entry put last
upsert_appends(items, today, entry) ==
    SelectSeq(items, LAMBDA a : ~EqStr(DictGet(a, <<"date">>), today)) \o <<entry>>

\* lines 817-818 of main on the items of the loaded archive:
\* the entries of another date, with the entry of today put first
upsert(items, today, entry) ==
    <<entry>> \o SelectSeq(items, LAMBDA a : ~EqStr(DictGet(a, <<"date">>), today))

\* whether lines 817-818 raise: the archive cannot be iterated (TypeError)
\* or one of its items has no get method (AttributeError)
UpsertRaises(loaded) ==
    \/ ~Iterable(loaded)
    \/ \E i \in 1..Len(Iterate(loaded)) : ~IsDict(Iterate(loaded)[i])

IndexLimit == 250

\* build_index_html: the page is represented by the cards it lists
build_index_html(archive) ==
    [i \in 1..Len(Take(archive, IndexLimit)) |->
       [date |-> DictGetOr(archive[i], <<"date">>, StrVal(<<>>)),
        file |-> DictGetOr(archive[i], <<"file">>, StrVal(<<>>)),
        title |-> DictGetOr(archive[i], <<"title">>, StrVal(<<>>))]]

(***************************************************************************)
(* The state of the docs directory and of the running process              *)
(***************************************************************************)
VARIABLES
    pc,             \* where the process is in main; "idle", "done" and "failed" are not running
    error,          \* the step that raised, when pc = "failed"
    runs,           \* the number of runs started so far
    TODAY,          \* the module global TODAY of the running process
    GEMINI_API_KEY, \* the module global GEMINI_API_KEY, "" when the secret is not set
    feed,           \* what feedparser.parse returned to this run
    reply,          \* what the model service answered to this run
    headline,       \* main's local headline
    text,           \* main's local text
    j_raw,          \* main's local j_raw
    j,              \* main's local j
    archive,        \* main's local archive
    archiveFile,    \* docs/archive.json: [k |-> "absent"] or [k |-> "file", text |-> ...]
    dayFiles,       \* docs/days: the set of [name, page], page = <<>> for an empty file
    indexFile,      \* docs/index.html: <<>> when absent, else <<the cards>>
    todayFile,      \* docs/today.html: <<>> when absent, else <<the target>>
    before          \* the docs directory when the run started

locals == <<headline, text, j_raw, j, archive>>
docs == <<archiveFile, dayFiles, indexFile, todayFile>>
vars == <<pc, error, runs, TODAY, GEMINI_API_KEY, feed, reply, locals, docs, before>>

\* the bounds of the model
MaxRuns == 2
MaxDate == 2

Dates == 1..MaxDate

\* the values of the secret GEMINI_API_KEY, after strip()
ApiKeys == { <<>>, <<"secret">> }

\* the feeds a run can meet: no entry, an entry with a blank title, a usable entry
Feeds ==
    { <<>>,
      << [title |-> <<" ">>, link |-> <<"http://news/1">>] >>,
      << [title |-> <<" ", "Fox cubs seen in park">>, link |-> <<"http://news/2">>] >> }

\* the texts the model can answer: a JSON object; an object in prose with
\* curly quotation marks and a trailing comma; an object whose title is an
\* escaped lone surrogate; no JSON at all
SampleTexts ==
    { <<"{", "\"", "title", "\"", ":", " ", "\"", "Cats", "\"", "}", "\n">>,
      <<"Here is your worksheet:", " ", "{", "<ldquo>", "title", "<rdquo>", ":", " ",
        "<ldquo>", "Cats", "<rdquo>", ",", " ", "}", " ", "Hope this helps!">>,
      <<"{", "\"", "title", "\"", ":", " ", "\"", "\\ud800", "\"", "}">>,
      <<"Sorry, I cannot help with that.">> }

Replies ==
    { [k |-> "error", text |-> <<>>], [k |-> "blocked", text |-> <<>>] }
    \cup { [k |-> "text", text |-> t] : t \in SampleTexts }

\* the archive files a first run can find: none; a cut-off text; an empty
\* object; an array of a number; an array of one entry
FoundArchives ==
    { [k |-> "absent", text |-> <<>>],
      [k |-> "file", text |-> <<"[", "\n", " ", " ", "{">>],
      [k |-> "file", text |-> <<"{", "}">>],
      [k |-> "file", text |-> <<"[", "1", "]">>],
      [k |-> "file", text |-> JsonDumps(ListVal(<<ArchiveEntry(DateStr(1),
                                   <<"days/">> \o DateStr(1) \o <<".html">>,
                                   <<"Old">>)>>), 0)] }

Running == {"main", "fetched", "called", "parsed", "normalized", "page_written",
            "loaded", "upserted", "saving", "saved", "indexed"}

\* the state before the first run, with the archive file found in docs
InitWith(found) ==
    /\ pc = "idle"
    /\ error = "none"
    /\ runs = 0
    /\ TODAY = <<>>
    /\ GEMINI_API_KEY = <<>>
    /\ feed = <<>>
    /\ reply = [k |-> "error", text |-> <<>>]
    /\ headline = <<>>
    /\ text = <<>>
    /\ j_raw = NoneVal
    /\ j = NoneVal
    /\ archive = NoneVal
    /\ archiveFile = found
    /\ dayFiles = {}
    /\ indexFile = <<>>
    /\ todayFile = <<>>
    /\ before = <<found, {}, <<>>, <<>>>>

\* a fresh docs directory
Init == InitWith([k |-> "absent", text |-> <<>>])

\* a docs directory in which an archive file was put by hand
InitFound == \E found \in FoundArchives : InitWith(found)

\* filename without the date in it
filename_undated == <<"days/", "today", ".html">>

\* f"days/{TODAY}.html"
filename == <<"days/">> \o TODAY \o <<".html">>

\* open(path, "w"): the file exists and is empty
Truncated(files, name) ==
    {f \in files : f.name # name} \cup {[name |-> name, page |-> <<>>]}

\* open(path, "w") followed by a write of page
Written(files, name, page) ==
    {f \in files : f.name # name} \cup {[name |-> name, page |-> <<page>>]}

\* the process starts: the module globals are set (lines 14 and 36)
Start(d, key) ==
    /\ pc \in {"idle", "done", "failed"}
    /\ runs < MaxRuns
    /\ runs' = runs + 1
    /\ pc' = "main"
    /\ error' = "none"
    /\ TODAY' = DateStr(d)
    /\ GEMINI_API_KEY' = key
    /\ feed' = <<>>
    /\ reply' = [k |-> "error", text |-> <<>>]
    /\ headline' = <<>>
    /\ text' = <<>>
    /\ j_raw' = NoneVal
    /\ j' = NoneVal
    /\ archive' = NoneVal
    /\ before' = docs
    /\ UNCHANGED docs

Raise(step) ==
    /\ pc' = "failed"
    /\ error' = step

\* line 773
FetchHeadline(fd) ==
    /\ pc = "main"
    /\ feed' = fd
    /\ IF fetch_headline(fd).ok
       THEN /\ headline' = fetch_headline(fd).title
            /\ pc' = "fetched"
            /\ UNCHANGED error
       ELSE /\ Raise("fetch_headline")
            /\ UNCHANGED headline
    /\ UNCHANGED <<runs, TODAY, GEMINI_API_KEY, reply, text, j_raw, j, archive, docs, before>>

\* line 808
CallGemini(rp) ==
    /\ pc = "fetched"
    /\ reply' = rp
    /\ IF call_gemini_text(GEMINI_API_KEY, rp).ok
       THEN /\ text' = call_gemini_text(GEMINI_API_KEY, rp).text
            /\ pc' = "called"
            /\ UNCHANGED error
       ELSE /\ Raise("call_gemini_text")
            /\ UNCHANGED text
    /\ UNCHANGED <<runs, TODAY, GEMINI_API_KEY, feed, headline, j_raw, j, archive, docs, before>>

\* line 809
ParseResponse ==
    /\ pc = "called"
    /\ j_raw' = safe_json_loads(text)
    /\ pc' = "parsed"
    /\ UNCHANGED <<error, runs, TODAY, GEMINI_API_KEY, feed, reply, headline, text, j, archive, docs, before>>

\* line 810
NormalizePayload ==
    /\ pc = "parsed"
    /\ j' = normalize_payload(j_raw, headline)
    /\ pc' = "normalized"
    /\ UNCHANGED <<error, runs, TODAY, GEMINI_API_KEY, feed, reply, headline, text, j_raw, archive, docs, before>>

\* lines 812-814: the file is opened, and so emptied, before the page is
\* built; the write raises UnicodeEncodeError on a lone surrogate
WriteDayPage ==
    /\ pc = "normalized"
    /\ LET page == build_day_html(TODAY, headline, feed[1].link, j)
       IN IF page.encodable
          THEN /\ dayFiles' = Written(dayFiles, filename, page)
               /\ pc' = "page_written"
               /\ UNCHANGED error
          ELSE /\ dayFiles' = Truncated(dayFiles, filename)
               /\ Raise("write_day_page")
    /\ UNCHANGED <<runs, TODAY, GEMINI_API_KEY, feed, reply, locals, archiveFile, indexFile, todayFile, before>>

\* line 816
LoadArchive ==
    /\ pc = "page_written"
    /\ IF load_archive(archiveFile).ok
       THEN /\ archive' = load_archive(archiveFile).val
            /\ pc' = "loaded"
            /\ UNCHANGED error
       ELSE /\ Raise("load_archive")
            /\ UNCHANGED archive
    /\ UNCHANGED <<runs, TODAY, GEMINI_API_KEY, feed, reply, headline, text, j_raw, j, docs, before>>

\* lines 817-818
Upsert ==
    /\ pc = "loaded"
    /\ IF UpsertRaises(archive)
       THEN /\ Raise("upsert")
            /\ UNCHANGED archive
       ELSE /\ archive' = ListVal(upsert(Iterate(archive), TODAY,
                                         ArchiveEntry(TODAY, filename, j.title)))
            /\ pc' = "upserted"
            /\ UNCHANGED error
    /\ UNCHANGED <<runs, TODAY, GEMINI_API_KEY, feed, reply, headline, text, j_raw, j, docs, before>>

\* the part of a dump that is in the file after the buffer was flushed once
FlushedPart(dump) == SubSeq(dump, 1, Len(dump) \div 2)

\* line 819, save_archive: open(ARCHIVE_FILE, "w") empties the file
SaveOpen ==
    /\ pc = "upserted"
    /\ archiveFile' = [k |-> "file", text |-> <<>>]
    /\ pc' = "saving"
    /\ UNCHANGED <<error, runs, TODAY, GEMINI_API_KEY, feed, reply, locals, dayFiles, indexFile, todayFile, before>>

\* save_archive: json.dump has written a first part of the text
SaveFlush ==
    /\ pc = "saving"
    /\ archiveFile.text = <<>>
    /\ archiveFile' = [k |-> "file", text |-> FlushedPart(JsonDumps(archive, 0))]
    /\ UNCHANGED <<pc, error, runs, TODAY, GEMINI_API_KEY, feed, reply, locals, dayFiles, indexFile, todayFile, before>>

\* save_archive: json.dump is through and the file is closed
SaveClose ==
    /\ pc = "saving"
    /\ archiveFile' = [k |-> "file", text |-> JsonDumps(archive, 0)]
    /\ pc' = "saved"
    /\ UNCHANGED <<error, runs, TODAY, GEMINI_API_KEY, feed, reply, locals, dayFiles, indexFile, todayFile, before>>

\* lines 821-822
WriteIndex ==
    /\ pc = "saved"
    /\ indexFile' = <<build_index_html(archive.v)>>
    /\ pc' = "indexed"
    /\ UNCHANGED <<error, runs, TODAY, GEMINI_API_KEY, feed, reply, locals, archiveFile, dayFiles, todayFile, before>>

\* line 824
WriteTodayRedirect ==
    /\ pc = "indexed"
    /\ todayFile' = <<DictGet(archive.v[1], <<"file">>).v>>
    /\ pc' = "done"
    /\ UNCHANGED <<error, runs, TODAY, GEMINI_API_KEY, feed, reply, locals, archiveFile, dayFiles, indexFile, before>>

\* the process is killed, or the disk fails, while main is between two steps
Crash ==
    /\ pc \in Running
    /\ Raise("killed")
    /\ UNCHANGED <<runs, TODAY, GEMINI_API_KEY, feed, reply, locals, docs, before>>

Next ==
    \/ \E d \in Dates, key \in ApiKeys : Start(d, key)
    \/ \E fd \in Feeds : FetchHeadline(fd)
    \/ \E rp \in Replies : CallGemini(rp)
    \/ ParseResponse
    \/ NormalizePayload
    \/ WriteDayPage
    \/ LoadArchive
    \/ Upsert
    \/ SaveOpen
    \/ SaveFlush
    \/ SaveClose
    \/ WriteIndex
    \/ WriteTodayRedirect
    \/ Crash

Spec == Init /\ [][Next]_vars

SpecFound == InitFound /\ [][Next]_vars

(***************************************************************************)
(* safe_json_loads on its own: the run is taken up at line 809 with an     *)
(* arbitrary response text in hand.                                        *)
(***************************************************************************)

MaxTextLen == 3

\* the characters response texts are made of
TextChunks ==
    {"{", "}", "[", "]", ",", ":", "\"", " ", "a", "1", "<ldquo>", "<rdquo>"}

RECURSIVE TextsOfLen(_)
TextsOfLen(n) ==
    IF n = 0 THEN {<<>>}
    ELSE {<<c>> \o t : c \in TextChunks, t \in TextsOfLen(n - 1)}

\* every text of at most MaxTextLen characters, and the sample responses
ParseTexts == UNION {TextsOfLen(n) : n \in 0..MaxTextLen} \cup SampleTexts

\* the locals of main() when call_gemini_text has returned txt
AtLine809(txt) ==
    /\ pc = "called"
    /\ error = "none"
    /\ runs = 1
    /\ TODAY = DateStr(1)
    /\ GEMINI_API_KEY = <<"secret">>
    /\ feed = <<[title |-> <<"Cats">>, link |-> <<"http://n/1">>]>>
    /\ reply = [k |-> "text", text |-> txt]
    /\ headline = <<"Cats">>
    /\ text = txt
    /\ j_raw = NoneVal
    /\ j = NoneVal
    /\ archive = NoneVal
    /\ archiveFile = [k |-> "absent", text |-> <<>>]
    /\ dayFiles = {}
    /\ indexFile = <<>>
    /\ todayFile = <<>>
    /\ before = <<[k |-> "absent", text |-> <<>>], {}, <<>>, <<>>>>

ParseInit == \E txt \in ParseTexts : AtLine809(txt)

ParseNext == ParseResponse

ParseSpec == ParseInit /\ [][ParseNext]_vars

(***************************************************************************)
(* normalize_payload on its own: the run is taken up at line 810 with an   *)
(* arbitrary parsed value in hand.                                         *)
(***************************************************************************)

MaxStoryLen == 5
MaxWordsLen == 6

Item(k, val) == [k |-> <<k>>, val |-> val]

Str1(c) == StrVal(<<c>>)

\* the i-th digit, for sentences and words that differ by position
Numeral(i) == <<"0", "1", "2", "3", "4", "5", "6", "7", "8", "9">>[(i % 10) + 1]

\* what the model can put under a key that should hold text: nothing, a
\* padded text, and in the rich set a blank text, an empty text, a number,
\* null
TextFew(key, c) == {<<>>, <<Item(key, StrVal(<<c>>))>>}
TextMany(key, c) ==
    TextFew(key, c) \cup
    {<<Item(key, x)>> : x \in {StrVal(<<" ", " ">>), StrVal(<<>>), IntVal(5), NoneVal,
                                StrVal(<<" ", c, " ", c, "\n">>)}}

\* a story whose i-th item is a sentence or a blank, as the mask says
StoryOfMask(m) ==
    ListVal([i \in 1..Len(m) |->
                IF m[i] THEN StrVal(<<" ", "Line", " ", Numeral(i), ".", "\n">>)
                ELSE StrVal(<<" ">>)])

Masks(n) == UNION {[1..k -> BOOLEAN] : k \in 0..n}

StoryFew ==
    {<<>>, <<Item("story", ListVal(<<StrVal(<<"A fox ran.">>), StrVal(<<"It was fast.">>),
                                    StrVal(<<"It went home.">>)>>))>>}
StoryMany ==
    StoryFew \cup
    {<<Item("story", StoryOfMask(m))>> : m \in Masks(MaxStoryLen)} \cup
    {<<Item("story", x)>> : x \in {StrVal(<<"A fox ran.">>), NoneVal, IntVal(3),
                                    ListVal(<<IntVal(7), NoneVal, BoolVal(TRUE)>>),
                                    ListVal(<<NoneVal>>),
                                    DictVal(<<Item("0", StrVal(<<"A fox ran.">>))>>)}}

Word(w, ko, en) ==
    DictVal(<<Item("word", StrVal(w)), Item("ko", StrVal(ko)), Item("en", StrVal(en))>>)

\* a list of words whose i-th item has a word or a blank, as the mask says
WordsOfMask(m) ==
    ListVal([i \in 1..Len(m) |->
                IF m[i] THEN Word(<<" ", "w", Numeral(i)>>, <<"k", Numeral(i), " ">>, <<"e">>)
                ELSE Word(<<" ">>, <<"k">>, <<"e">>)])

WordsFew ==
    {<<>>, <<Item("words", ListVal(<<Word(<<"fox">>, <<"yeou">>, <<"an animal">>),
                                    Word(<<"fast">>, <<"ppareun">>, <<"quick">>)>>))>>}
WordsMany ==
    WordsFew \cup
    {<<Item("words", WordsOfMask(m))>> : m \in Masks(MaxWordsLen)} \cup
    {<<Item("words", x)>> : x \in
        {NoneVal, StrVal(<<"fox">>),
         ListVal(<<DictVal(<<Item("word", StrVal(<<"fox">>))>>)>>),
         ListVal(<<IntVal(1), DictVal(<<Item("word", IntVal(7)), Item("ko", NoneVal)>>)>>),
         ListVal(<<StrVal(<<"fox">>), EmptyDict>>),
         Word(<<"fox">>, <<"k">>, <<"e">>)}}

\* the answers the model can give to a choice question
Answers ==
    {<<>>} \cup
    {<<Item("answer", x)>> : x \in {Str1("A"), Str1("b"), StrVal(<<" ", "c", "\n">>), Str1("D"),
                                     StrVal(<<"A", "B">>), StrVal(<<>>), IntVal(1), NoneVal,
                                     BoolVal(TRUE), ListVal(<<Str1("A")>>)}}

Choices ==
    {<<>>,
     <<Item("choices", DictVal(<<Item("A", Str1("x")), Item("B", StrVal(<<" ", "y">>)),
                                 Item("C", IntVal(3))>>))>>,
     <<Item("choices", DictVal(<<Item("B", Str1("y"))>>))>>,
     <<Item("choices", ListVal(<<Str1("x")>>))>>}

Questions(q) == {<<>>, <<Item("q", StrVal(<<q, " ">>))>>, <<Item("q", Str1(" "))>>,
                 <<Item("q", IntVal(1))>>}

TfAnswers == {<<>>} \cup {<<Item("answer", x)>> : x \in {BoolVal(TRUE), BoolVal(FALSE),
                                                       Str1("true"), IntVal(1), NoneVal}}

QuizFew ==
    {<<>>,
     <<Item("quiz", DictVal(<<
          Item("tf", DictVal(<<Item("q", Str1("Is it fast?")), Item("answer", BoolVal(FALSE))>>)),
          Item("mcq", DictVal(<<Item("q", Str1("Who ran?")),
                                Item("choices", DictVal(<<Item("A", Str1("a fox")),
                                                          Item("B", Str1("a cat")),
                                                          Item("C", Str1("a dog"))>>)),
                                Item("answer", Str1("A"))>>)),
          Item("pic", DictVal(<<Item("q", Str1("Which one?")),
                                Item("answer", Str1("c"))>>))>>))>>}
QuizMany ==
    QuizFew \cup
    {<<Item("quiz", DictVal(<<Item("mcq", DictVal(a \o c)), Item("pic", DictVal(b))>>))>> :
        a \in Answers, b \in Answers, c \in Choices} \cup
    {<<Item("quiz", DictVal(<<Item("tf", DictVal(q \o a))>>))>> :
        q \in Questions("Is it so?"), a \in TfAnswers} \cup
    {<<Item("quiz", DictVal(<<Item("pic", DictVal(q \o c))>>))>> :
        q \in Questions("Which?"), c \in Choices} \cup
    {<<Item("quiz", x)>> : x \in {NoneVal, ListVal(<<>>), Str1("quiz"), EmptyDict,
                                   DictVal(<<Item("tf", BoolVal(TRUE)), Item("mcq", Str1("A")),
                                             Item("pic", NoneVal)>>)}}

TopicMany ==
    {<<>>} \cup
    {<<Item("topic", x)>> : x \in {StrVal(<<" ", "Animals", " ">>), Str1("science"),
                                    Str1("cats"), Str1(""), IntVal(2)}}

\* the parsed objects in which field f takes every shape and the other
\* fields are absent or valid
Family(f) ==
    {a \o b \o c \o d \o e \o g \o h :
        a \in IF f = 1 THEN TextMany("title", "Cats") ELSE TextFew("title", "Cats"),
        b \in IF f = 2 THEN TopicMany ELSE {<<>>},
        c \in IF f = 3 THEN StoryMany ELSE StoryFew,
        d \in IF f = 4 THEN WordsMany ELSE WordsFew,
        e \in IF f = 5 THEN TextMany("read_aloud", "Read me.") ELSE TextFew("read_aloud", "Read me."),
        g \in IF f = 6 THEN QuizMany ELSE QuizFew,
        h \in IF f = 7 THEN TextMany("parent_note_ko", "Note.") ELSE TextFew("parent_note_ko", "Note.")}

\* the values safe_json_loads can hand to normalize_payload
ParsedInputs ==
    {DictVal(items) : items \in UNION {Family(f) : f \in 1..7}} \cup
    {NoneVal, IntVal(1), Str1("Cats"), BoolVal(TRUE), ListVal(<<>>), ListVal(<<EmptyDict>>)}

\* the locals of main() when safe_json_loads has returned parsed
AtLine810(parsed) ==
    /\ pc = "parsed"
    /\ error = "none"
    /\ runs = 1
    /\ TODAY = DateStr(1)
    /\ GEMINI_API_KEY = <<"secret">>
    /\ feed = <<[title |-> <<"Cats">>, link |-> <<"http://n/1">>]>>
    /\ reply = [k |-> "text", text |-> <<>>]
    /\ headline = <<"Headline">>
    /\ text = <<>>
    /\ j_raw = parsed
    /\ j = NoneVal
    /\ archive = NoneVal
    /\ archiveFile = [k |-> "absent", text |-> <<>>]
    /\ dayFiles = {}
    /\ indexFile = <<>>
    /\ todayFile = <<>>
    /\ before = <<[k |-> "absent", text |-> <<>>], {}, <<>>, <<>>>>

FillInit == \E parsed \in ParsedInputs : AtLine810(parsed)

FillNext == NormalizePayload

FillSpec == FillInit /\ [][FillNext]_vars

(***************************************************************************)
(* Properties of a sequence of runs                                        *)
(***************************************************************************)
\* the entries an archive file holds, <<>> when it holds no JSON array
Entries(file) ==
    LET r == load_archive(file)
    IN IF r.ok /\ IsList(r.val) THEN r.val.v ELSE <<>>

\* an archive file as the program writes it: absent, or a JSON array of
\* objects with a str date, file and title
WellFormed(file) ==
    LET r == load_archive(file)
    IN /\ r.ok
       /\ IsList(r.val)
       /\ \A i \in 1..Len(r.val.v) :
            /\ IsDict(r.val.v[i])
            /\ \A key \in { <<"date">>, <<"file">>, <<"title">> } :
                 IsStr(DictGet(r.val.v[i], key))

\* the date of an entry as a day of the clock
DateOf(entry) == CHOOSE d \in 1..6 : DateStr(d) = DictGet(entry, <<"date">>).v

\* the dates of the entries go down strictly
Descending(entries) ==
    \A i \in 1..Len(entries) : \A k \in 1..Len(entries) :
        i < k => DateOf(entries[i]) > DateOf(entries[k])

\* the run is past save_archive
Saved == pc \in {"saved", "indexed", "done"}

\* C1: the persisted archive holds at most one entry per date, and after a
\* run has saved, the entry of its date is the first one, is the only one
\* of that date and carries the title of this run.
C1_IdempotentRepublish ==
    LET es == Entries(archiveFile)
    IN /\ WellFormed(archiveFile) =>
            \A i \in 1..Len(es) : \A k \in 1..Len(es) :
                i # k => DictGet(es[i], <<"date">>) # DictGet(es[k], <<"date">>)
       /\ Saved =>
            /\ WellFormed(archiveFile)
            /\ es[1] = ArchiveEntry(TODAY, filename, j.title)
            /\ Cardinality({i \in 1..Len(es) : EqStr(DictGet(es[i], <<"date">>), TODAY)}) = 1

\* a run has saved over an entry of its date that had another title
C1_Witness ==
    LET old == Entries(before[1])
    IN /\ Saved
       /\ \E i \in 1..Len(old) :
            /\ EqStr(DictGet(old[i], <<"date">>), TODAY)
            /\ ~EqStr(DictGet(old[i], <<"title">>), j.title)

\* C2 as stated: whatever dates the clock gave, the persisted entries are in
\* descending date order.
C2_AlwaysDescending ==
    WellFormed(archiveFile) => Descending(Entries(archiveFile))

\* C2 as amended: after a run has saved, the entry of its date is first; and
\* when the archive the run found was in descending order and held no date
\* later than the date of the run, the archive it saved is in descending
\* order.
C2_DescendingWhileClockAdvances ==
    LET old == Entries(before[1])
        new == Entries(archiveFile)
    IN (Saved /\ WellFormed(before[1])) =>
           /\ EqStr(DictGet(new[1], <<"date">>), TODAY)
           /\ ( ( /\ Descending(old)
                  /\ \A i \in 1..Len(old) : DateOf(old[i]) <= DateOf(new[1]) )
                => Descending(new) )

\* a run on a later day has saved an archive of two entries
C2_Witness ==
    LET old == Entries(before[1])
        new == Entries(archiveFile)
    IN /\ Saved
       /\ WellFormed(before[1])
       /\ Len(old) = 1
       /\ Len(new) = 2
       /\ DateOf(old[1]) < DateOf(new[1])

\* C3 as stated: whatever the response text, safe_json_loads returns a
\* mapping.
C3_ParseReturnsMapping == pc = "parsed" => IsDict(j_raw)

\* C4 as stated: a run whose headline fetch and model call returned, and
\* which found a well-formed archive, does not fail.
C4_MalformedOutputNeverFatal ==
    (pc = "failed" /\ error \in {"write_day_page", "load_archive", "upsert"})
        => ~WellFormed(before[1])

\* C5 as stated: normalize_payload of the empty mapping is the default
\* document, field by field.
C5_EmptyMappingGivesDefault ==
    (pc = "normalized" /\ j_raw = EmptyDict) => j = default_payload(headline)

\* d[k] when d is a dict that has k, else None
Sub(d, k) == IF IsDict(d) THEN DictGet(d, <<k>>) ELSE NoneVal

Keys == {<<"A">>, <<"B">>, <<"C">>}

\* the answer parsed for a part of the quiz, None when there is none
ParsedKey(part) == Sub(Sub(Sub(j_raw, "quiz"), part), "answer")

\* C6: in every record normalize_payload produces, the answers of mcq and
\* pic are each one of A, B, C: the parsed answer stripped and upper-cased
\* when that is one of the three, and else the default answer of that part,
\* also when the parsed answer is no string.
C6_AnswerKeyValid ==
    pc = "normalized" =>
        \A part \in {"mcq", "pic"} :
            LET k == ParsedKey(part)
                given == IF IsStr(k) THEN Upper(Strip(k.v)) ELSE <<>>
            IN /\ j.quiz[part].answer \in Keys
               /\ given \in Keys => j.quiz[part].answer = given
               /\ given \notin Keys => j.quiz[part].answer = default_quiz[part].answer

\* a record made from a quiz whose mcq answer is no key and whose pic
\* answer is a key in lower case
C6_Witness ==
    /\ pc = "normalized"
    /\ ParsedKey("mcq") = Str1("D")
    /\ ParsedKey("pic") = Str1("b")
    /\ j.quiz.mcq.answer = <<"A">>
    /\ j.quiz.pic.answer = <<"B">>

\* the parsed mapping with every key but one removed
Restrict(d, key) == DictVal(SelectSeq(d.v, LAMBDA it : it.k = <<key>>))

\* the word of an item of words, as text without its margins
WordOf(w) == Strip(PyStr(DictGetOr(w, <<"word">>, StrVal(<<>>))))

\* x is a str that is not blank
Text(x) == IsStr(x) /\ Strip(x.v) # <<>>

\* C7: each of title, story, words, quiz and parent_note_ko is what it
\* would be with every other key removed from the parsed mapping; it is the
\* default when the key is absent, of the wrong type or empty, and comes
\* from the parsed value when that is valid.
C7_FieldLevelFallback ==
    pc = "normalized" =>
        LET m == IF IsDict(j_raw) THEN j_raw ELSE EmptyDict
            d == default_payload(headline)
            title == Sub(m, "title")
            story == Sub(m, "story")
            words == Sub(m, "words")
            quiz == Sub(m, "quiz")
            note == Sub(m, "parent_note_ko")
            storyValid == IsList(story) /\ \E i \in 1..Len(story.v) : Strip(PyStr(story.v[i])) # <<>>
            wordsValid == IsList(words) /\ \E i \in 1..Len(words.v) :
                              IsDict(words.v[i]) /\ WordOf(words.v[i]) # <<>>
        IN /\ j.title = normalize_payload(Restrict(m, "title"), headline).title
           /\ j.story = normalize_payload(Restrict(m, "story"), headline).story
           /\ j.words = normalize_payload(Restrict(m, "words"), headline).words
           /\ j.quiz = normalize_payload(Restrict(m, "quiz"), headline).quiz
           /\ j.parent_note_ko =
                  normalize_payload(Restrict(m, "parent_note_ko"), headline).parent_note_ko
           /\ j.title = IF Text(title) THEN Strip(title.v) ELSE d.title
           /\ j.parent_note_ko = IF Text(note) THEN Strip(note.v) ELSE d.parent_note_ko
           /\ IF storyValid
              THEN \A i \in 1..Len(j.story) :
                       /\ j.story[i] # <<>>
                       /\ \E k \in 1..Len(story.v) : j.story[i] = Strip(PyStr(story.v[k]))
              ELSE j.story = d.story
           /\ IF wordsValid
              THEN \A i \in 1..Len(j.words) :
                       \E k \in 1..Len(words.v) :
                           /\ IsDict(words.v[k])
                           /\ j.words[i].word = WordOf(words.v[k])
              ELSE j.words = d.words
           /\ ~IsDict(quiz) => j.quiz = d.quiz
           /\ IsBool(Sub(Sub(quiz, "tf"), "answer")) =>
                  j.quiz.tf.answer = Sub(Sub(quiz, "tf"), "answer").v

\* the record made from {"title": "Cats", "story": []}
C7_Witness ==
    /\ pc = "normalized"
    /\ j_raw = DictVal(<<Item("title", Str1("Cats")), Item("story", ListVal(<<>>))>>)
    /\ j.title = <<"Cats">>
    /\ j.story = default_story

\* the feed has a usable first entry
UsableFeed(fd) == fd # <<>> /\ Strip(fd[1].title) # <<>> /\ Strip(fd[1].link) # <<>>

\* C8: a run does not get past the headline fetch without a usable feed
\* entry, nor past the model call without a credential and an answer; up to
\* there it writes nothing, and when one of the two raises, the docs
\* directory is as the run found it.
C8_TransportFailureFatal ==
    /\ pc \in (Running \ {"main"}) \cup {"done"} => UsableFeed(feed)
    /\ pc \in (Running \ {"main", "fetched"}) \cup {"done"} =>
         GEMINI_API_KEY # <<>> /\ reply.k # "error"
    /\ pc \in {"main", "fetched"} => docs = before
    /\ (pc = "failed" /\ error \in {"fetch_headline", "call_gemini_text"}) => docs = before

\* the model call has raised for a missing credential in a run that found
\* an archive and pages
C8_Witness ==
    /\ pc = "failed"
    /\ error = "call_gemini_text"
    /\ GEMINI_API_KEY = <<>>
    /\ Len(Entries(archiveFile)) > 0
    /\ todayFile # <<>>

\* C9 as stated: load returns an empty sequence when there is no archive
\* file; a run that found a malformed archive file does not get past load
\* and leaves the file as it was.
C9_MalformedArchiveFatal ==
    /\ (pc = "loaded" /\ archiveFile.k = "absent") => archive = ListVal(<<>>)
    /\ ~WellFormed(before[1]) =>
         /\ pc \notin {"loaded", "upserted", "saving", "saved", "indexed", "done"}
         /\ archiveFile = before[1]

\* C10 as stated: at every point of a run the archive file holds the
\* complete text it held when the run started or the complete text of the
\* new sequence.
C10_AtomicSave ==
    \/ archiveFile = before[1]
    \/ /\ pc \in {"saving", "saved", "indexed", "done", "failed"}
       /\ IsList(archive)
       /\ archiveFile = [k |-> "file", text |-> JsonDumps(archive, 0)]

\* the parsed mapping, empty when the parsed value is no mapping
Parsed == IF IsDict(j_raw) THEN j_raw ELSE EmptyDict

\* C11: when the parsed read_aloud is a str that is not blank, the record's
\* read_aloud is that str stripped; otherwise (absent, no str, blank) it is
\* the record's own story, parsed or default, joined with " / ".
C11_ReadAloudDerived ==
    pc = "normalized" =>
        LET ra == Sub(Parsed, "read_aloud")
        IN j.read_aloud = IF Text(ra) THEN Strip(ra.v) ELSE Join(<<" / ">>, j.story)

\* a record with no parsed read_aloud whose story of several lines came
\* from the parsed input
C11_Witness ==
    /\ pc = "normalized"
    /\ Sub(Parsed, "read_aloud") = NoneVal
    /\ j.story # default_story
    /\ Len(j.story) > 1
    /\ j.read_aloud = Join(<<" / ">>, j.story)

\* the items of a parsed story that are not blank, stripped
NonBlankLines(story) ==
    IF IsList(story)
    THEN SelectSeq([i \in 1..Len(story.v) |-> Strip(PyStr(story.v[i]))], LAMBDA x : x # <<>>)
    ELSE <<>>

\* C12 as stated: the story of every record has 3 to 4 items, none empty.
C12_StoryThreeToFour ==
    pc = "normalized" =>
        /\ Len(j.story) \in 3..4
        /\ \A i \in 1..Len(j.story) : j.story[i] # <<>>

\* C12 amended: the story of every record has 1 to 4 items, none empty: as
\* many as the parsed story has items that are not blank, up to 4, and the
\* four default lines when it has none.
C12_StoryOneToFour ==
    pc = "normalized" =>
        LET lines == NonBlankLines(Sub(Parsed, "story"))
        IN /\ Len(j.story) \in 1..StoryLimit
           /\ \A i \in 1..Len(j.story) : j.story[i] # <<>>
           /\ lines # <<>> =>
                  Len(j.story) = IF Len(lines) < StoryLimit THEN Len(lines) ELSE StoryLimit
           /\ lines = <<>> => j.story = default_story

\* a record made from a parsed story of one sentence
C12_Witness ==
    /\ pc = "normalized"
    /\ Sub(Parsed, "story") = StoryOfMask(<<TRUE>>)
    /\ j.story = << <<"Line", " ", "1", ".">> >>

\* the dict d has the key k
Has(d, k) == \E i \in 1..Len(d.v) : d.v[i].k = <<k>>

\* the items of a parsed words list that are dicts with a word
Survivors(words) ==
    IF IsList(words)
    THEN SelectSeq(words.v, LAMBDA w : IsDict(w) /\ WordOf(w) # <<>>)
    ELSE <<>>

\* C13: the record's words are the first 5 of the parsed items that have a
\* non-empty word, in their order (the drop comes before the cut); there
\* are at most 5, each with a non-empty word, and an item without ko or en
\* gets the empty string there.
C13_WordsDropThenTruncate ==
    pc = "normalized" =>
        LET surv == Survivors(Sub(Parsed, "words"))
        IN /\ Len(j.words) <= WordLimit
           /\ \A i \in 1..Len(j.words) : j.words[i].word # <<>>
           /\ surv # <<>> =>
                /\ Len(j.words) = IF Len(surv) < WordLimit THEN Len(surv) ELSE WordLimit
                /\ \A i \in 1..Len(j.words) :
                       /\ j.words[i].word = WordOf(surv[i])
                       /\ ~Has(surv[i], "ko") => j.words[i].ko = <<>>
                       /\ ~Has(surv[i], "en") => j.words[i].en = <<>>

\* a record made from six parsed items of which the first has a blank word:
\* the other five are all kept
C13_Witness ==
    /\ pc = "normalized"
    /\ Sub(Parsed, "words") = WordsOfMask(<<FALSE, TRUE, TRUE, TRUE, TRUE, TRUE>>)
    /\ Len(j.words) = 5
    /\ j.words[1].word = <<"w", "2">>
    /\ j.words[5].word = <<"w", "6">>

\* the positions of chunk c in txt
Positions(txt, c) == {i \in 1..Len(txt) : txt[i] = c}

\* txt has a "{" with a "}" somewhere after it
HasBlock(txt) ==
    \E lo \in Positions(txt, "{") : \E hi \in Positions(txt, "}") : lo < hi

Least(S) == CHOOSE x \in S : \A y \in S : x <= y
Greatest(S) == CHOOSE x \in S : \A y \in S : y <= x

\* the part of txt from its first "{" to its last "}"
Block(txt) == SubSeq(txt, Least(Positions(txt, "{")), Greatest(Positions(txt, "}")))

\* the result when the whole txt does not parse: the block parsed as it
\* is, else the repaired block parsed, else the empty mapping
FromBlock(txt) ==
    LET second == JsonLoads(Block(txt))
        third == JsonLoads(repair_json(Block(txt)))
    IN IF second.ok THEN second.val
       ELSE IF third.ok THEN third.val
       ELSE EmptyDict

\* C14 as stated: the result is the parse of the whole text when that
\* succeeds; else the parse of the part from the first "{" to the last "}";
\* else the parse of that part repaired; else the empty mapping; and it is
\* the empty mapping whenever the text has no such part.
C14_AttemptOrder ==
    pc = "parsed" =>
        /\ JsonLoads(text).ok => j_raw = JsonLoads(text).val
        /\ (~JsonLoads(text).ok /\ HasBlock(text)) => j_raw = FromBlock(text)
        /\ ~HasBlock(text) => j_raw = EmptyDict

\* the day page of this run is in docs, written
PageWritten == \E f \in dayFiles : f.name = filename /\ f.page # <<>>

\* the steps of main() in their order: the day page is there from line 814
\* on; the archive file is untouched before save_archive, the index before
\* line 821, the redirect before line 824
StepsInOrder ==
    /\ pc \in {"page_written", "loaded", "upserted", "saving", "saved", "indexed", "done"}
           => PageWritten
    /\ pc \in {"main", "fetched", "called", "parsed", "normalized", "page_written",
               "loaded", "upserted"} => archiveFile = before[1]
    /\ pc \in {"main", "fetched", "called", "parsed", "normalized", "page_written",
               "loaded", "upserted", "saving", "saved"} => indexFile = before[3]
    /\ pc \in Running => todayFile = before[4]

\* every entry of the archive file names days/{date}.html, and that file is
\* in docs
EntriesNamePages ==
    LET entries == Entries(archiveFile)
    IN WellFormed(archiveFile) =>
           \A i \in 1..Len(entries) :
               LET file == DictGet(entries[i], <<"file">>).v
               IN /\ file = <<"days/">> \o DictGet(entries[i], <<"date">>).v \o <<".html">>
                  /\ \E f \in dayFiles : f.name = file

\* the redirect names the file of the first entry of the archive file
RedirectIsFirst ==
    LET entries == Entries(archiveFile)
    IN /\ WellFormed(archiveFile)
       /\ entries # <<>>
       /\ todayFile = <<DictGet(entries[1], <<"file">>).v>>

\* C15 as stated: the steps of a run come in their order, every archive
\* entry names days/{date}.html and that page was written, and between runs,
\* however the last run ended, a redirect that was written names the file
\* of the first entry of the archive.
C15_OrderOfWrites ==
    /\ StepsInOrder
    /\ EntriesNamePages
    /\ (pc \in {"idle", "done", "failed"} /\ todayFile # <<>> /\ WellFormed(archiveFile))
           => RedirectIsFirst

\* C15 amended: the steps of a run come in their order, every archive entry
\* names days/{date}.html and that page was written, a redirect that was
\* written names a day page in docs, and after a run that completed it
\* names the file of the first entry of the archive.
C15_OrderOfWritesOfCompletedRuns ==
    /\ StepsInOrder
    /\ EntriesNamePages
    /\ todayFile # <<>> => \E f \in dayFiles : f.name = todayFile[1]
    /\ pc = "done" => RedirectIsFirst

\* a second run, on another date, was stopped after save_archive: the
\* archive has its entry first and the redirect still names the page of
\* the first run
C15_Witness ==
    /\ pc = "failed"
    /\ error = "killed"
    /\ WellFormed(archiveFile)
    /\ Len(Entries(archiveFile)) = 2
    /\ DictGet(Entries(archiveFile)[1], <<"date">>).v = TODAY
    /\ PageWritten
    /\ todayFile # <<>>
    /\ ~RedirectIsFirst

====
